---- MODULE Spec2Model ----
(***************************************************************************)
(* Transcript reconciliation engine of the chat client:                    *)
(*   - messageParsing   (parseMessageContent, filterToolCallTags, helpers) *)
(*   - ChatMessageBubble (what is rendered for the segments of a turn)     *)
(*   - useChatMessages  (history load, handleSSEEvent, sendMessage,        *)
(*                       cancel, abort-on-session-change effect)           *)
(*                                                                         *)
(* Text is a sequence of tokens.  A token is an atomic piece of a string   *)
(* that never contains part of a tag: a plain character, a whitespace      *)
(* character, one complete tag, or one complete payload.  The one          *)
(* exception is the call-open tag, which a streamed text may also hold as  *)
(* its two halves OpenHead and OpenTail; JoinTags gives the token sequence *)
(* of the same string with every such pair written as CallOpen.  String    *)
(* concatenation is \o, the empty string is << >>, and undefined is the    *)
(* value Undefined, which no text equals.                                  *)
(***************************************************************************)
EXTENDS Integers, Sequences, FiniteSets, TLC

\* ------------------------------------------------------------------------
\* Bounds of the model
\* ------------------------------------------------------------------------
MaxStreams == 2         \* sendMessage invocations that open a stream
MaxSwitches == 1        \* session changes
MaxEvents == 2          \* stream events delivered to one submission
MaxCancels == 2         \* cancel invocations
MaxReads == 1           \* reads of the published list by the view
MaxReducerEvents == 4   \* stream events applied to one live turn
MaxRecords == 4         \* persisted records of one loaded session
MaxPieces == 4          \* markup blocks and text spans of one record content
MaxFilterLen == 5       \* tokens of one streamed text handed to the filter

\* ------------------------------------------------------------------------
\* Values
\* ------------------------------------------------------------------------
Undefined == <<"#undefined">>
NoNum == -1
NoArgs == "undefined"

CallOpen == "<tool_call>"
CallClose == "</tool_call>"
OpenHead == "<tool_"
OpenTail == "call>"
ResultClose == "</tool_result>"
ResultOpenA == "<tool_result name=\"a\">"
ResultOpenB == "<tool_result name=\"b\">"
JsonA == "{\"name\":\"a\",\"arguments\":{}}"
JsonB == "{\"name\":\"b\",\"arguments\":{}}"
BadJson == "{bad}"
XmlNameA == "<name>a</name>"
XmlArgs == "<arguments>z</arguments>"

\* the notice literal of cancel, "\n\n[...]", with its word written in ASCII
CancelNotice == <<"\n", "\n", "[cancelled]">>
FailNotice(reason) == <<"\n", "\n", "[" \o reason \o "]">>
DefaultReason == "task failed"
\* the failure text of sendMessage plus err.message, written in ASCII
SendFailed == <<"send failed: ", "net">>

IsWs(tok) == tok \in {" ", "\n"}
IsBlank(text) == \A i \in 1..Len(text) : IsWs(text[i])

\* text.slice(from, to) with 0-based from (inclusive) and to (exclusive)
Slice(text, from, to) == SubSeq(text, from + 1, to)

RECURSIVE TrimLeft(_)
TrimLeft(text) ==
    IF Len(text) > 0 /\ IsWs(text[1]) THEN TrimLeft(Tail(text)) ELSE text

RECURSIVE TrimRight(_)
TrimRight(text) ==
    IF Len(text) > 0 /\ IsWs(text[Len(text)])
    THEN TrimRight(SubSeq(text, 1, Len(text) - 1)) ELSE text

Trim(text) == TrimRight(TrimLeft(text))

RECURSIVE StripNewlinesLeft(_)
StripNewlinesLeft(text) ==
    IF Len(text) > 0 /\ text[1] = "\n" THEN StripNewlinesLeft(Tail(text)) ELSE text

RECURSIVE StripNewlinesRight(_)
StripNewlinesRight(text) ==
    IF Len(text) > 0 /\ text[Len(text)] = "\n"
    THEN StripNewlinesRight(SubSeq(text, 1, Len(text) - 1)) ELSE text

\* ------------------------------------------------------------------------
\* messageParsing: parseToolCallPayload
\* ------------------------------------------------------------------------
IsJsonLike(tok) == tok \in {JsonA, JsonB, BadJson}
JsonName(tok) == IF tok = JsonA THEN "a" ELSE IF tok = JsonB THEN "b" ELSE "undefined"
JsonArgs(tok) == IF tok \in {JsonA, JsonB} THEN "{}" ELSE NoArgs

parseToolCallPayload(payload) ==
    LET trimmed == Trim(payload)
        names == {i \in 1..Len(trimmed) : trimmed[i] = XmlNameA}
        args == {i \in 1..Len(trimmed) : trimmed[i] = XmlArgs}
    IN  IF Len(trimmed) > 0 /\ IsJsonLike(trimmed[1]) /\ IsJsonLike(trimmed[Len(trimmed)])
        THEN IF Len(trimmed) = 1 /\ trimmed[1] # BadJson
             THEN [name |-> JsonName(trimmed[1]), arguments |-> JsonArgs(trimmed[1])]
             ELSE [name |-> "undefined", arguments |-> NoArgs]
        ELSE [name |-> IF names # {} THEN "a" ELSE "undefined",
              arguments |-> IF args # {} THEN "_xml:z" ELSE NoArgs]

\* ------------------------------------------------------------------------
\* messageParsing: parseMessageContent
\* ------------------------------------------------------------------------
IsResultOpen(tok) == tok \in {ResultOpenA, ResultOpenB}
ResultName(tok) == IF tok = ResultOpenA THEN "a" ELSE "b"

ToolNames == {"a", "b", "tool", "x"}

\* index of the first token equal to tok strictly after position p, 0 if none
FirstAfter(text, p, tok) ==
    LET hits == {q \in (p + 1)..Len(text) : text[q] = tok}
    IN  IF hits = {} THEN 0 ELSE CHOOSE q \in hits : \A r \in hits : q <= r

\* tagRegex tried at token p (1-based): the end of the match, 0 if no match
MatchEnd(text, p) ==
    IF text[p] = CallOpen THEN FirstAfter(text, p, CallClose)
    ELSE IF IsResultOpen(text[p]) THEN FirstAfter(text, p, ResultClose)
    ELSE 0

HistToolId(n) == "hist-tool-" \o ToString(n)

TextSeg(content) == [type |-> "text", content |-> content]
ToolSeg(tool) == [type |-> "tool", tool |-> tool]

NewTool(id, name, status, arguments, output) ==
    [id |-> id, name |-> name, status |-> status, arguments |-> arguments,
     output |-> output, logs |-> << >>, progress |-> NoNum, total |-> NoNum]

\* a pushText that drops empty spans only
pushTextKeepsBlank(segments, text) ==
    IF Len(text) = 0 THEN segments
    ELSE Append(segments, TextSeg(text))

pushText(segments, text) ==
    IF Len(text) = 0 \/ IsBlank(text) THEN segments
    ELSE Append(segments, TextSeg(text))

\* the queue entry a result would take if the newest unresolved call went first
NewestUnresolved(segments, queue) ==
    LET open == {k \in 1..Len(queue) : segments[queue[k]].tool.output = Undefined}
    IN  IF open = {} THEN 0 ELSE queue[CHOOSE k \in open : \A r \in open : r <= k]

\* attachResult: the queue of a name holds the indexes of the segments whose
\* ToolCall objects the code keeps in pendingByName
FirstUnresolved(segments, queue) ==
    LET open == {k \in 1..Len(queue) : segments[queue[k]].tool.output = Undefined}
    IN  IF open = {} THEN 0 ELSE queue[CHOOSE k \in open : \A r \in open : k <= r]

ParseStart == [segments |-> << >>, pendingByName |-> [n \in ToolNames |-> << >>], lastIndex |-> 0]

ParseCall(acc, text, p, e) ==
    LET afterText == IF p - 1 > acc.lastIndex
                     THEN pushText(acc.segments, Slice(text, acc.lastIndex, p - 1))
                     ELSE acc.segments
        parsed == parseToolCallPayload(SubSeq(text, p + 1, e - 1))
        name == IF parsed.name = "undefined" THEN "tool" ELSE parsed.name
        tool == NewTool(HistToolId(Len(afterText)), name, "done", parsed.arguments, Undefined)
    IN  [segments |-> Append(afterText, ToolSeg(tool)),
         pendingByName |-> [acc.pendingByName EXCEPT ![name] = Append(@, Len(afterText) + 1)],
         lastIndex |-> e]

\* a result block without an unresolved call of its name leaves no segment
ParseResultDropsUnmatched(acc, text, p, e) ==
    LET afterText == IF p - 1 > acc.lastIndex
                     THEN pushText(acc.segments, Slice(text, acc.lastIndex, p - 1))
                     ELSE acc.segments
        name == ResultName(text[p])
        output == StripNewlinesRight(StripNewlinesLeft(SubSeq(text, p + 1, e - 1)))
        idx == FirstUnresolved(afterText, acc.pendingByName[name])
    IN  [segments |-> IF idx # 0
                      THEN [afterText EXCEPT ![idx].tool.output = output]
                      ELSE afterText,
         pendingByName |-> acc.pendingByName,
         lastIndex |-> e]

ParseResult(acc, text, p, e) ==
    LET afterText == IF p - 1 > acc.lastIndex
                     THEN pushText(acc.segments, Slice(text, acc.lastIndex, p - 1))
                     ELSE acc.segments
        name == ResultName(text[p])
        output == StripNewlinesRight(StripNewlinesLeft(SubSeq(text, p + 1, e - 1)))
        idx == FirstUnresolved(afterText, acc.pendingByName[name])
    IN  [segments |-> IF idx # 0
                      THEN [afterText EXCEPT ![idx].tool.output = output]
                      ELSE Append(afterText,
                               ToolSeg(NewTool(HistToolId(Len(afterText)), name, "done", NoArgs, output))),
         pendingByName |-> acc.pendingByName,
         lastIndex |-> e]

RECURSIVE ParseScan(_, _, _)
ParseScan(acc, text, p) ==
    IF p > Len(text) THEN acc
    ELSE LET e == MatchEnd(text, p)
         IN  IF e = 0 THEN ParseScan(acc, text, p + 1)
             ELSE IF text[p] = CallOpen
                  THEN ParseScan(ParseCall(acc, text, p, e), text, e + 1)
                  ELSE ParseScan(ParseResult(acc, text, p, e), text, e + 1)

\* the parse without the fallback to one text segment
parseMessageContentNoFallback(content) ==
    LET acc == ParseScan(ParseStart, content, 1)
    IN  IF acc.lastIndex < Len(content)
        THEN pushText(acc.segments, Slice(content, acc.lastIndex, Len(content)))
        ELSE acc.segments

parseMessageContent(content) ==
    LET acc == ParseScan(ParseStart, content, 1)
        segments == IF acc.lastIndex < Len(content)
                    THEN pushText(acc.segments, Slice(content, acc.lastIndex, Len(content)))
                    ELSE acc.segments
    IN  IF Len(segments) = 0 THEN <<TextSeg(content)>> ELSE segments

\* ------------------------------------------------------------------------
\* messageParsing: filterToolCallTags
\* ------------------------------------------------------------------------
\* the same string with "<tool_" followed by "call>" written as one tag
RECURSIVE JoinTags(_)
JoinTags(text) ==
    IF Len(text) = 0 THEN << >>
    ELSE IF Len(text) >= 2 /\ text[1] = OpenHead /\ text[2] = OpenTail
    THEN <<CallOpen>> \o JoinTags(SubSeq(text, 3, Len(text)))
    ELSE <<text[1]>> \o JoinTags(Tail(text))

\* replace(/<tool_call>[\s\S]*?<\/tool_call>/g, ''): from left to right, each
\* call-open tag is removed with everything up to the first call-close tag
\* after it; the scan goes on behind the removed block
RECURSIVE RemoveCallBlocks(_)
RemoveCallBlocks(text) ==
    IF Len(text) = 0 THEN << >>
    ELSE IF text[1] = CallOpen /\ \E q \in 2..Len(text) : text[q] = CallClose
    THEN LET q == CHOOSE k \in 2..Len(text) :
                      text[k] = CallClose /\ \A j \in 2..(k - 1) : text[j] # CallClose
         IN RemoveCallBlocks(SubSeq(text, q + 1, Len(text)))
    ELSE <<text[1]>> \o RemoveCallBlocks(Tail(text))

\* replace(/<tool_call>[\s\S]*$/g, ''): the first call-open tag and everything
\* after it
RemoveOpenTail(text) ==
    IF \E p \in 1..Len(text) : text[p] = CallOpen
    THEN LET p == CHOOSE k \in 1..Len(text) :
                      text[k] = CallOpen /\ \A j \in 1..(k - 1) : text[j] # CallOpen
         IN SubSeq(text, 1, p - 1)
    ELSE text

\* the length of the run of newlines text starts with
RECURSIVE NewlineRun(_)
NewlineRun(text) ==
    IF Len(text) > 0 /\ text[1] = "\n" THEN 1 + NewlineRun(Tail(text)) ELSE 0

\* replace(/\n{3,}/g, '\n\n')
RECURSIVE CollapseNewlines(_)
CollapseNewlines(text) ==
    IF Len(text) = 0 THEN << >>
    ELSE IF text[1] = "\n"
    THEN LET n == NewlineRun(text)
         IN (IF n >= 3 THEN <<"\n", "\n">> ELSE SubSeq(text, 1, n))
                \o CollapseNewlines(SubSeq(text, n + 1, Len(text)))
    ELSE <<text[1]>> \o CollapseNewlines(Tail(text))

\* a filter that removes complete call blocks only
filterToolCallTagsCompleteOnly(content) ==
    IF Len(content) = 0 THEN << >>
    ELSE Trim(CollapseNewlines(JoinTags(RemoveCallBlocks(JoinTags(content)))))

filterToolCallTags(content) ==
    IF Len(content) = 0 THEN << >>
    ELSE Trim(CollapseNewlines(RemoveOpenTail(JoinTags(RemoveCallBlocks(JoinTags(content))))))

\* ------------------------------------------------------------------------
\* messageParsing: helpers of the history load
\* ------------------------------------------------------------------------
IsBracketPrefix(tok) == tok \in {"[a]:", "[b]:"}
BracketName(tok) == IF tok = "[a]:" THEN "a" ELSE "b"

parseToolMemoryMessage(content) ==
    LET trimmed == Trim(content)
    IN  IF Len(trimmed) > 0 /\ IsBracketPrefix(trimmed[1])
        THEN [name |-> BracketName(trimmed[1]), output |-> Trim(Tail(trimmed))]
        ELSE [name |-> "tool", output |-> trimmed]

\* lowest index of a tool segment with unset output (and that name), 0 if none
LowestUnresolved(segments, toolName, byName) ==
    LET open == {j \in 1..Len(segments) :
                    /\ segments[j].type = "tool"
                    /\ segments[j].tool.output = Undefined
                    /\ (byName => segments[j].tool.name = toolName)}
    IN  IF open = {} THEN 0 ELSE CHOOSE j \in open : \A r \in open : j <= r

\* highest index of a tool segment with unset output (and that name), 0 if none
LastUnresolved(segments, toolName, byName) ==
    LET open == {j \in 1..Len(segments) :
                    /\ segments[j].type = "tool"
                    /\ segments[j].tool.output = Undefined
                    /\ (byName => segments[j].tool.name = toolName)}
    IN  IF open = {} THEN 0 ELSE CHOOSE j \in open : \A r \in open : r <= j

\* the index attachToolOutputToAssistantMsg writes to, 0 when it returns false
AttachIndex(msg, toolName) ==
    IF LastUnresolved(msg.segments, toolName, TRUE) # 0
    THEN LastUnresolved(msg.segments, toolName, TRUE)
    ELSE LastUnresolved(msg.segments, toolName, FALSE)

attachToolOutputToAssistantMsg(msg, toolName, output) ==
    LET j == AttachIndex(msg, toolName)
    IN  IF j = 0 THEN msg
        ELSE [msg EXCEPT !.segments[j].tool.output = output,
                         !.segments[j].tool.status = "done"]

appendToolResultAsSegment(msg, toolName, output, idSeed) ==
    [msg EXCEPT !.segments = Append(@,
        ToolSeg(NewTool("hist-tool-" \o idSeed \o "-" \o ToString(Len(msg.segments)),
                        toolName, "done", NoArgs, output)))]

normalizeRole(role) ==
    IF role \in {"user", "User", "USER"} THEN "user"
    ELSE IF role \in {"system", "System"} THEN "system"
    ELSE IF role \in {"tool", "Tool"} THEN "tool"
    ELSE "assistant"

\* ------------------------------------------------------------------------
\* useChatMessages: loadMessages (history reconciliation)
\* ------------------------------------------------------------------------
EmptyMap == << >>

HistId(outIdx) == "hist-" \o ToString(outIdx)

HistTurn(outIdx, role, content, segments) ==
    [id |-> HistId(outIdx), role |-> role, content |-> content, status |-> "completed",
     segments |-> segments, pending |-> EmptyMap]

RECURSIVE PushParsed(_, _, _)
PushParsed(segments, segs, k) ==
    IF k > Len(segs) THEN segments
    ELSE IF segs[k].type = "text"
         THEN IF Len(segs[k].content) = 0 \/ IsBlank(segs[k].content)
              THEN PushParsed(segments, segs, k + 1)
              ELSE PushParsed(Append(segments, TextSeg(segs[k].content)), segs, k + 1)
         ELSE PushParsed(Append(segments, segs[k]), segs, k + 1)

AbsorbTool(merged, next) ==
    LET parsed == parseToolMemoryMessage(next.content)
    IN  IF AttachIndex(merged, parsed.name) # 0
        THEN attachToolOutputToAssistantMsg(merged, parsed.name, parsed.output)
        ELSE appendToolResultAsSegment(merged, parsed.name, parsed.output, merged.id)

\* an absorbed assistant record that extends the content only
AbsorbAssistantContentOnly(merged, next) ==
    [merged EXCEPT !.content = @ \o <<"\n", "\n">> \o next.content]

AbsorbAssistant(merged, next) ==
    [merged EXCEPT !.content = @ \o <<"\n", "\n">> \o next.content,
                   !.segments = PushParsed(@, parseMessageContent(next.content), 1)]

\* the inner while loop: the merged turn and the index of the last absorbed record
RECURSIVE Absorb(_, _, _)
Absorb(merged, records, i) ==
    IF i + 1 > Len(records) \/ normalizeRole(records[i + 1].role) \in {"user", "system"}
    THEN [merged |-> merged, i |-> i]
    ELSE IF normalizeRole(records[i + 1].role) = "tool"
         THEN Absorb(AbsorbTool(merged, records[i + 1]), records, i + 1)
         ELSE Absorb(AbsorbAssistant(merged, records[i + 1]), records, i + 1)

RECURSIVE ReconcileFrom(_, _, _, _)
ReconcileFrom(records, i, outIdx, out) ==
    IF i > Len(records) THEN out
    ELSE LET m == records[i]
             role == normalizeRole(m.role)
         IN  IF role \in {"user", "system"}
             THEN ReconcileFrom(records, i + 1, outIdx + 1,
                      Append(out, HistTurn(outIdx, role, m.content, <<TextSeg(m.content)>>)))
             ELSE IF role = "tool"
             THEN LET parsed == parseToolMemoryMessage(m.content)
                      tool == NewTool("hist-tool-" \o ToString(outIdx) \o "-0",
                                      parsed.name, "done", NoArgs, parsed.output)
                  IN  ReconcileFrom(records, i + 1, outIdx + 1,
                          Append(out, HistTurn(outIdx, "assistant", << >>, <<ToolSeg(tool)>>)))
             ELSE LET first == HistTurn(outIdx, "assistant", m.content, parseMessageContent(m.content))
                      done == Absorb(first, records, i)
                  IN  ReconcileFrom(records, done.i + 1, outIdx + 1, Append(out, done.merged))

Reconcile(records) == ReconcileFrom(records, 1, 0, << >>)

\* ------------------------------------------------------------------------
\* useChatMessages: handleSSEEvent, the transition of the last turn
\* ------------------------------------------------------------------------
MapSet(map, key, value) == [k \in DOMAIN map \cup {key} |-> IF k = key THEN value ELSE map[k]]
MapDelete(map, key) == [k \in DOMAIN map \ {key} |-> map[k]]

\* segments.map(...) replacing the tool of every tool segment with that id
ReplaceTool(segments, callId, tool) ==
    [k \in 1..Len(segments) |->
        IF segments[k].type = "tool" /\ segments[k].tool.id = callId
        THEN [segments[k] EXCEPT !.tool = tool]
        ELSE segments[k]]

\* a text increment always pushed as a segment of its own
AppendTextAlwaysPush(segments, text) == Append(segments, TextSeg(text))

\* a text increment put in front of the last text segment's content
AppendTextPrepend(segments, text) ==
    IF Len(segments) > 0 /\ segments[Len(segments)].type = "text"
    THEN [segments EXCEPT ![Len(segments)].content = text \o @]
    ELSE Append(segments, TextSeg(text))

\* append to the last segment when it is text, else push a text segment
AppendText(segments, text) ==
    IF Len(segments) > 0 /\ segments[Len(segments)].type = "text"
    THEN [segments EXCEPT ![Len(segments)].content = @ \o text]
    ELSE Append(segments, TextSeg(text))

\* a delta that reaches the segments and not the content
OnDeltaSegmentsOnly(msg, ev) ==
    [msg EXCEPT !.segments = AppendText(@, ev.content)]

OnDelta(msg, ev) ==
    [msg EXCEPT !.content = @ \o ev.content,
                !.segments = AppendText(@, ev.content)]

\* a completion that takes the event's content also when it is empty
OnCompletedAlwaysOverwrite(msg, ev) ==
    [msg EXCEPT !.content = ev.content, !.status = "completed"]

OnCompleted(msg, ev) ==
    [msg EXCEPT !.content = IF Len(ev.content) > 0 THEN ev.content ELSE @,
                !.status = "completed"]

\* event.error || event.reason || the default text
FailReason(ev) ==
    IF ev.error # "" THEN ev.error ELSE IF ev.reason # "" THEN ev.reason ELSE DefaultReason

\* a failure that writes the notice to the content only
OnFailedContentOnly(msg, ev) ==
    [msg EXCEPT !.status = "error",
                !.content = @ \o FailNotice(FailReason(ev))]

OnFailed(msg, ev) ==
    [msg EXCEPT !.status = "error",
                !.content = @ \o FailNotice(FailReason(ev)),
                !.segments = AppendText(@, FailNotice(FailReason(ev)))]

OnToolStart(msg, ev) ==
    LET toolCall == NewTool(ev.call_id, ev.tool, "running", ev.arguments, Undefined)
    IN  IF ev.call_id # "" /\ ev.tool # ""
        THEN [msg EXCEPT !.segments = Append(@, ToolSeg(toolCall)),
                         !.pending = MapSet(@, ev.call_id, toolCall)]
        ELSE msg

\* a tool_complete that writes its output to the segments with that id also
\* when the id is not pending
OnToolCompleteUnguarded(msg, ev) ==
    [msg EXCEPT !.segments =
                    [k \in 1..Len(@) |->
                        IF @[k].type = "tool" /\ @[k].tool.id = ev.call_id
                        THEN [@[k] EXCEPT !.tool.status = "done", !.tool.output = ev.output]
                        ELSE @[k]],
                !.pending = MapDelete(@, ev.call_id)]

OnToolComplete(msg, ev) ==
    IF ev.call_id \in DOMAIN msg.pending
    THEN LET completedTool == [msg.pending[ev.call_id] EXCEPT !.status = "done",
                                                              !.output = ev.output]
         IN  [msg EXCEPT !.segments = ReplaceTool(@, ev.call_id, completedTool),
                         !.pending = MapDelete(@, ev.call_id)]
    ELSE msg

OnToolProgress(msg, ev) ==
    IF ev.call_id \in DOMAIN msg.pending
    THEN LET tool == msg.pending[ev.call_id]
             updatedTool ==
                 IF ev.progress_type \in {"log", "output"}
                 THEN IF ev.message # ""
                      THEN [tool EXCEPT !.logs = @ \o <<ev.message>>] ELSE tool
                 ELSE IF ev.progress_type = "progress"
                      THEN [tool EXCEPT !.progress = ev.progress, !.total = ev.total]
                      ELSE tool
         IN  [msg EXCEPT !.pending = MapSet(@, ev.call_id, updatedTool),
                         !.segments = ReplaceTool(@, ev.call_id, updatedTool)]
    ELSE msg

\* the switch statement applied to the copy of the last turn
ApplyEvent(msg, ev) ==
    IF ev.type \in {"delta", "assistant_message_delta"} THEN OnDelta(msg, ev)
    ELSE IF ev.type \in {"task_completed", "assistant_message_completed"} THEN OnCompleted(msg, ev)
    ELSE IF ev.type \in {"task_failed", "task_aborted"} THEN OnFailed(msg, ev)
    ELSE IF ev.type = "tool_start" THEN OnToolStart(msg, ev)
    ELSE IF ev.type = "tool_complete" THEN OnToolComplete(msg, ev)
    ELSE IF ev.type = "tool_call_progress" THEN OnToolProgress(msg, ev)
    ELSE msg

\* the event kinds whose case calls setSending(false)
ClearsSending(ev) ==
    ev.type \in {"task_completed", "assistant_message_completed", "task_failed", "task_aborted"}

\* the event kinds whose case calls setTimeout(() => refreshSessionTitle(), 1500)
SetsTitleTimer(ev) == ev.type \in {"task_completed", "assistant_message_completed"}

\* ------------------------------------------------------------------------
\* useChatMessages: the state of one hook instance
\* ------------------------------------------------------------------------
VARIABLES
    session,             \* the session prop: a session id or NoSession
    messages,            \* useState messages: the published turn list
    loading,             \* useState loading
    sending,             \* useState sending
    seenSending,         \* the value of sending captured by the rendered sendMessage closure
    abortControllerRef,  \* 0 (null) or the stream whose AbortController it holds
    streams,             \* per sendMessage invocation: its executeStream call
    loads,               \* per session: getSessionDetail calls in flight
    cancelsPending,      \* cancel invocations awaiting cancelTask
    snap,                \* the turn list a reader took at its last render
    shared,              \* positions whose turn object is the one snap holds there
    listOwner,           \* the session whose load (or clear) wrote the list last
    budget,              \* the operations the environment may still perform
    detail,              \* per session: the records getSessionDetail resolves with
    titleTimers,         \* per session: title-refresh timers set and not yet fired
    view,                \* per turn: what ChatMessageBubble rendered for its segments
    lastOp               \* the operation that produced the state

vars == <<session, messages, loading, sending, seenSending, abortControllerRef, streams,
          loads, cancelsPending, snap, shared, listOwner, budget, detail, titleTimers, view,
          lastOp>>

NoSession == "none"
Sessions == {"A", "B"}

Rec(role, content) == [role |-> role, content |-> content]

\* getSessionDetail: the persisted records of each session
RecordsOf(s) ==
    IF s = "A"
    THEN <<Rec("user", <<"q">>),
           Rec("assistant", <<CallOpen, JsonA, CallClose>>),
           Rec("tool", <<"[a]:", " ", "o">>),
           Rec("Assistant", <<CallOpen, JsonA, CallClose, "y">>)>>
    ELSE <<Rec("User", <<"q">>),
           Rec("assistant", <<"x">>),
           Rec("tool", <<"[a]:", " ", "out">>),
           Rec("assistant", <<"y">>)>>

Prompts == {<<"p">>, <<" ">>}

\* the protocol events a stream delivers in the controller specification
Events ==
    {[type |-> "delta", content |-> <<"d">>],
     [type |-> "task_completed", content |-> <<"F">>],
     [type |-> "task_failed", error |-> "boom", reason |-> ""],
     [type |-> "tool_start", call_id |-> "c1", tool |-> "x", arguments |-> "{}"],
     [type |-> "tool_complete", call_id |-> "c1", output |-> <<"o1">>]}

UserMsg(prompt) ==
    [id |-> "now", role |-> "user", content |-> prompt, status |-> "none",
     segments |-> <<TextSeg(prompt)>>, pending |-> EmptyMap]

AssistantMsg ==
    [id |-> "now+1", role |-> "assistant", content |-> << >>, status |-> "streaming",
     segments |-> << >>, pending |-> EmptyMap]

UnusedStream == [state |-> "unused", session |-> NoSession]
UsedStreams == {s \in DOMAIN streams : streams[s].state # "unused"}
OpenStreams == {s \in DOMAIN streams : streams[s].state = "open"}

\* AbortController.abort(): an open stream becomes aborted, anything else stays
AbortRef ==
    IF abortControllerRef # 0 /\ streams[abortControllerRef].state = "open"
    THEN [streams EXCEPT ![abortControllerRef].state = "aborted"]
    ELSE streams

\* What the environment may do in one behaviour: several submissions and a
\* session change; a cancelled submission followed by a cancelled one; one
\* submission with more events; one submission with repeated cancels and a
\* reading view.
Budgets ==
    {[streams |-> MaxStreams, switches |-> MaxSwitches, events |-> 1, cancels |-> 0, reads |-> 0],
     [streams |-> 2, switches |-> 0, events |-> 1, cancels |-> 2, reads |-> 0],
     [streams |-> 1, switches |-> 0, events |-> MaxEvents, cancels |-> 1, reads |-> 0],
     [streams |-> 1, switches |-> 0, events |-> 1, cancels |-> MaxCancels,
      reads |-> MaxReads]}

Init ==
    /\ session = "A"
    /\ messages = << >>
    /\ loading = (session # NoSession)
    /\ sending = FALSE
    /\ seenSending = FALSE
    /\ abortControllerRef = 0
    /\ streams = [s \in 1..MaxStreams |-> UnusedStream]
    /\ loads = [s \in Sessions |-> IF s = session THEN 1 ELSE 0]
    /\ cancelsPending = 0
    /\ snap = << >>
    /\ shared = {}
    /\ listOwner = NoSession
    /\ budget \in Budgets
    /\ detail = [s \in Sessions |-> RecordsOf(s)]
    /\ titleTimers = [s \in Sessions |-> 0]
    /\ view = << >>
    /\ lastOp = [op |-> "init"]

\* ------------------------------------------------------------------------
\* Operations
\* ------------------------------------------------------------------------

\* The session prop changes (a render with new props).  The cleanup of the
\* abort effect runs first, then the load effect of the new session.
SwitchSession(to) ==
    /\ budget.switches > 0
    /\ to # session
    /\ budget' = [budget EXCEPT !.switches = @ - 1]
    /\ session' = to
    /\ streams' = AbortRef
    /\ abortControllerRef' = 0
    /\ seenSending' = sending
    /\ IF to = NoSession
       THEN /\ messages' = << >>
            /\ shared' = {}
            /\ listOwner' = NoSession
            /\ UNCHANGED <<loading, loads>>
       ELSE /\ loading' = TRUE
            /\ loads' = [loads EXCEPT ![to] = @ + 1]
            /\ UNCHANGED <<messages, shared, listOwner>>
    /\ lastOp' = [op |-> "switch"]
    /\ UNCHANGED <<sending, cancelsPending, snap, detail,
                   titleTimers, view>>

\* loadMessages after getSessionDetail resolved
LoadDone(s) ==
    /\ loads[s] > 0
    /\ loads' = [loads EXCEPT ![s] = @ - 1]
    /\ messages' = Reconcile(detail[s])
    /\ shared' = {}
    /\ listOwner' = s
    /\ loading' = FALSE
    /\ lastOp' = [op |-> "loadDone"]
    /\ UNCHANGED <<session, sending, seenSending, abortControllerRef, streams, cancelsPending,
                   snap, budget, detail,
                   titleTimers, view>>

\* a rejected getSessionDetail that leaves the list as it is
LoadFailKeepsList(s) ==
    /\ loads[s] > 0
    /\ loads' = [loads EXCEPT ![s] = @ - 1]
    /\ UNCHANGED <<messages, shared>>
    /\ listOwner' = s
    /\ loading' = FALSE
    /\ lastOp' = [op |-> "loadFail"]
    /\ UNCHANGED <<session, sending, seenSending, abortControllerRef, streams, cancelsPending,
                   snap, budget, detail,
                   titleTimers, view>>

\* loadMessages after getSessionDetail rejected
LoadFail(s) ==
    /\ loads[s] > 0
    /\ loads' = [loads EXCEPT ![s] = @ - 1]
    /\ messages' = << >>
    /\ shared' = {}
    /\ listOwner' = s
    /\ loading' = FALSE
    /\ lastOp' = [op |-> "loadFail"]
    /\ UNCHANGED <<session, sending, seenSending, abortControllerRef, streams, cancelsPending,
                   snap, budget, detail,
                   titleTimers, view>>

\* A render with unchanged props: the callbacks are recreated and capture
\* the current value of sending.
Render ==
    /\ seenSending # sending
    /\ seenSending' = sending
    /\ lastOp' = [op |-> "render"]
    /\ UNCHANGED <<session, messages, loading, sending, abortControllerRef, streams, loads,
                   cancelsPending, snap, shared, listOwner, budget, detail,
                   titleTimers, view>>

\* The view reads the published list and keeps the turn objects it read.
ReaderSnapshot ==
    /\ budget.reads > 0
    /\ budget' = [budget EXCEPT !.reads = @ - 1]
    /\ snap' = messages
    /\ shared' = 1..Len(messages)
    /\ lastOp' = [op |-> "read"]
    /\ UNCHANGED <<session, messages, loading, sending, seenSending, abortControllerRef,
                   streams, loads, cancelsPending, listOwner, detail,
                   titleTimers, view>>

\* sendMessage up to the await of executeStream
sendMessage(prompt) ==
    LET sid == Cardinality(UsedStreams) + 1
        accepted == ~IsBlank(prompt) /\ session # NoSession /\ ~seenSending
    IN  /\ sid <= budget.streams
        /\ IF accepted
           THEN /\ sending' = TRUE
                /\ abortControllerRef' = sid
                /\ streams' = [streams EXCEPT ![sid] = [state |-> "open", session |-> session]]
                /\ messages' = messages \o <<UserMsg(prompt), AssistantMsg>>
           ELSE UNCHANGED <<sending, abortControllerRef, streams, messages>>
        /\ lastOp' = [op |-> "submit", prompt |-> prompt, accepted |-> accepted]
        /\ UNCHANGED <<session, loading, seenSending, loads, cancelsPending, snap, shared,
                       listOwner, budget, detail,
                   titleTimers, view>>

\* a handler that clears the flag and sets the timer outside the guarded updater
HandleEventFlagUnguarded(s, ev) ==
    LET n == Len(messages)
        applies == n > 0 /\ messages[n].role = "assistant"
    IN  /\ IF applies
           THEN /\ messages' = [messages EXCEPT ![n] = ApplyEvent(messages[n], ev)]
                /\ shared' = shared \ {n}
                /\ sending' = IF ClearsSending(ev) THEN FALSE ELSE sending
                /\ titleTimers' = IF SetsTitleTimer(ev)
                                  THEN [titleTimers EXCEPT ![streams[s].session] = @ + 1]
                                  ELSE titleTimers
           ELSE /\ sending' = IF ClearsSending(ev) THEN FALSE ELSE sending
                /\ UNCHANGED <<messages, shared, titleTimers>>
        /\ lastOp' = [op |-> "event", ev |-> ev, stale |-> streams[s].session # session]
        /\ UNCHANGED <<session, loading, seenSending, abortControllerRef, streams, loads,
                       cancelsPending, snap, listOwner, detail, view>>

\* handleSSEEvent called by the stream
HandleEvent(s, ev) ==
    LET n == Len(messages)
        applies == n > 0 /\ messages[n].role = "assistant"
    IN  /\ IF applies
           THEN /\ messages' = [messages EXCEPT ![n] = ApplyEvent(messages[n], ev)]
                /\ shared' = shared \ {n}
                /\ sending' = IF ClearsSending(ev) THEN FALSE ELSE sending
                /\ titleTimers' = IF SetsTitleTimer(ev)
                                  THEN [titleTimers EXCEPT ![streams[s].session] = @ + 1]
                                  ELSE titleTimers
           ELSE UNCHANGED <<messages, shared, sending, titleTimers>>
        /\ lastOp' = [op |-> "event", ev |-> ev, stale |-> streams[s].session # session]
        /\ UNCHANGED <<session, loading, seenSending, abortControllerRef, streams, loads,
                       cancelsPending, snap, listOwner, detail, view>>

Deliver(s, ev) ==
    /\ streams[s].state = "open"
    /\ budget.events > 0
    /\ budget' = [budget EXCEPT !.events = @ - 1]
    /\ HandleEvent(s, ev)

\* a finally block that releases the handle and leaves the flag
FinallyKeepsSending(s) ==
    /\ streams' = [streams EXCEPT ![s].state = "closed"]
    /\ UNCHANGED sending
    /\ abortControllerRef' = 0

\* the finally block of sendMessage
Finally(s) ==
    /\ streams' = [streams EXCEPT ![s].state = "closed"]
    /\ sending' = FALSE
    /\ abortControllerRef' = 0

\* executeStream resolves
StreamReturn(s) ==
    /\ streams[s].state = "open"
    /\ Finally(s)
    /\ lastOp' = [op |-> "streamReturn"]
    /\ UNCHANGED <<session, messages, loading, seenSending, loads, cancelsPending, snap,
                   shared, listOwner, budget, detail,
                   titleTimers, view>>

\* a turn object modified in place is also the object the reader holds
InPlace(list, at, n, turn) ==
    IF n \in at THEN [list EXCEPT ![n] = turn] ELSE list

\* a failure handler that also empties the segments of the turn
StreamFailClearsSegments(s) ==
    LET n == Len(messages)
        hit == n > 0 /\ messages[n].role = "assistant"
        failed == [messages[n] EXCEPT !.status = "error", !.content = SendFailed,
                                     !.segments = << >>]
    IN  /\ streams[s].state = "open"
        /\ Finally(s)
        /\ messages' = IF hit THEN [messages EXCEPT ![n] = failed] ELSE messages
        /\ snap' = IF hit THEN InPlace(snap, shared, n, failed) ELSE snap
        /\ lastOp' = [op |-> "streamFail"]
        /\ UNCHANGED <<session, loading, seenSending, loads, cancelsPending, shared,
                       listOwner, budget, detail,
                   titleTimers, view>>

\* executeStream rejects with an error that is not an AbortError
StreamFail(s) ==
    LET n == Len(messages)
        hit == n > 0 /\ messages[n].role = "assistant"
        failed == [messages[n] EXCEPT !.status = "error", !.content = SendFailed]
    IN  /\ streams[s].state = "open"
        /\ Finally(s)
        /\ messages' = IF hit THEN [messages EXCEPT ![n] = failed] ELSE messages
        /\ snap' = IF hit THEN InPlace(snap, shared, n, failed) ELSE snap
        /\ lastOp' = [op |-> "streamFail"]
        /\ UNCHANGED <<session, loading, seenSending, loads, cancelsPending, shared,
                       listOwner, budget, detail,
                   titleTimers, view>>

\* executeStream rejects with an AbortError after its signal was aborted
StreamAborted(s) ==
    /\ streams[s].state = "aborted"
    /\ Finally(s)
    /\ lastOp' = [op |-> "streamAborted"]
    /\ UNCHANGED <<session, messages, loading, seenSending, loads, cancelsPending, snap,
                   shared, listOwner, budget, detail,
                   titleTimers, view>>

\* cancel up to the await of cancelTask
CancelStart ==
    /\ budget.cancels > 0
    /\ budget' = [budget EXCEPT !.cancels = @ - 1]
    /\ streams' = AbortRef
    /\ abortControllerRef' = 0
    /\ cancelsPending' = cancelsPending + 1
    /\ lastOp' = [op |-> "cancelStart"]
    /\ UNCHANGED <<session, messages, loading, sending, seenSending, loads, snap, shared,
                   listOwner, detail,
                   titleTimers, view>>

\* cancel after cancelTask resolved or rejected
CancelFinish ==
    LET n == Len(messages)
        hit == n > 0 /\ messages[n].role = "assistant"
        cancelled == [messages[n] EXCEPT !.status = "error", !.content = @ \o CancelNotice]
    IN  /\ cancelsPending > 0
        /\ cancelsPending' = cancelsPending - 1
        /\ sending' = FALSE
        /\ messages' = IF hit THEN [messages EXCEPT ![n] = cancelled] ELSE messages
        /\ snap' = IF hit THEN InPlace(snap, shared, n, cancelled) ELSE snap
        /\ lastOp' = [op |-> "cancel", was |-> IF hit THEN messages[n].status ELSE "none"]
        /\ UNCHANGED <<session, loading, seenSending, abortControllerRef, streams, loads,
                       shared, listOwner, budget, detail,
                   titleTimers, view>>

\* a title-refresh timer fires: refreshSessionTitle calls the callback of the
\* owner with the session id its closure holds
TitleRefresh(s) ==
    /\ titleTimers[s] > 0
    /\ titleTimers' = [titleTimers EXCEPT ![s] = @ - 1]
    /\ lastOp' = [op |-> "titleRefresh", session |-> s]
    /\ UNCHANGED <<session, messages, loading, sending, seenSending, abortControllerRef,
                   streams, loads, cancelsPending, snap, shared, listOwner, budget, detail,
                   view>>

Next ==
    \/ \E to \in Sessions \cup {NoSession} : SwitchSession(to)
    \/ \E s \in Sessions : LoadDone(s)
    \/ \E s \in Sessions : LoadFail(s)
    \/ Render
    \/ ReaderSnapshot
    \/ \E prompt \in Prompts : sendMessage(prompt)
    \/ \E s \in DOMAIN streams, ev \in Events : Deliver(s, ev)
    \/ \E s \in DOMAIN streams : StreamReturn(s)
    \/ \E s \in DOMAIN streams : StreamFail(s)
    \/ \E s \in DOMAIN streams : StreamAborted(s)
    \/ CancelStart
    \/ CancelFinish
    \/ \E s \in Sessions : TitleRefresh(s)

Spec == Init /\ [][Next]_vars

\* ------------------------------------------------------------------------
\* Session changes and history loads with at most one submission: no stream
\* events, no cancel, no reading view.
\* ------------------------------------------------------------------------
InitSessions ==
    /\ session = "A"
    /\ messages = << >>
    /\ loading = TRUE
    /\ sending = FALSE
    /\ seenSending = FALSE
    /\ abortControllerRef = 0
    /\ streams = [s \in 1..MaxStreams |-> UnusedStream]
    /\ loads = [s \in Sessions |-> IF s = "A" THEN 1 ELSE 0]
    /\ cancelsPending = 0
    /\ snap = << >>
    /\ shared = {}
    /\ listOwner = NoSession
    /\ budget = [streams |-> 1, switches |-> MaxSwitches + 1, events |-> 0, cancels |-> 0,
                 reads |-> 0]
    /\ detail = [s \in Sessions |-> RecordsOf(s)]
    /\ titleTimers = [s \in Sessions |-> 0]
    /\ view = << >>
    /\ lastOp = [op |-> "init"]

NextSessions ==
    \/ \E to \in Sessions \cup {NoSession} : SwitchSession(to)
    \/ \E s \in Sessions : LoadDone(s)
    \/ \E s \in Sessions : LoadFail(s)
    \/ Render
    \/ \E prompt \in Prompts : sendMessage(prompt)
    \/ \E s \in DOMAIN streams : StreamReturn(s)
    \/ \E s \in DOMAIN streams : StreamAborted(s)

SpecSessions == InitSessions /\ [][NextSessions]_vars

\* ------------------------------------------------------------------------
\* Stream events and history loads: a submission made while the history is
\* still being fetched, the fetch resolving or failing while the stream is
\* open, and the stream delivering events to the list the load installed.
\* The service holds, for every session, the usual records, or a single user
\* record, or a single system record.
\* ------------------------------------------------------------------------
DetailChoices ==
    {[s \in Sessions |-> RecordsOf(s)],
     [s \in Sessions |-> <<Rec("user", <<"q">>)>>],
     [s \in Sessions |-> <<Rec("system", <<"s">>)>>]}

InitEvents ==
    /\ session = "A"
    /\ messages = << >>
    /\ loading = TRUE
    /\ sending = FALSE
    /\ seenSending = FALSE
    /\ abortControllerRef = 0
    /\ streams = [s \in 1..MaxStreams |-> UnusedStream]
    /\ loads = [s \in Sessions |-> IF s = "A" THEN 1 ELSE 0]
    /\ cancelsPending = 0
    /\ snap = << >>
    /\ shared = {}
    /\ listOwner = NoSession
    /\ budget = [streams |-> 1, switches |-> 0, events |-> MaxEvents, cancels |-> 0,
                 reads |-> 0]
    /\ detail \in DetailChoices
    /\ titleTimers = [s \in Sessions |-> 0]
    /\ view = << >>
    /\ lastOp = [op |-> "init"]

NextEvents ==
    \/ \E s \in Sessions : LoadDone(s)
    \/ \E s \in Sessions : LoadFail(s)
    \/ Render
    \/ \E prompt \in Prompts : sendMessage(prompt)
    \/ \E s \in DOMAIN streams, ev \in Events : Deliver(s, ev)
    \/ \E s \in DOMAIN streams : StreamReturn(s)
    \/ \E s \in DOMAIN streams : StreamFail(s)
    \/ \E s \in Sessions : TitleRefresh(s)

SpecEvents == InitEvents /\ [][NextEvents]_vars

\* ------------------------------------------------------------------------
\* The reducer alone: every kind of protocol event applied to one live turn,
\* starting in the state right after an accepted submit.
\* ------------------------------------------------------------------------
ReducerEvents ==
    {[type |-> "delta", content |-> <<"d">>],
     [type |-> "delta", content |-> <<"e">>],
     [type |-> "assistant_message_delta", content |-> << >>],
     [type |-> "task_completed", content |-> <<"F">>],
     [type |-> "assistant_message_completed", content |-> << >>],
     [type |-> "task_failed", error |-> "boom", reason |-> ""],
     [type |-> "task_aborted", error |-> "", reason |-> ""],
     [type |-> "tool_start", call_id |-> "c1", tool |-> "x", arguments |-> "{}"],
     [type |-> "tool_start", call_id |-> "c2", tool |-> "x", arguments |-> NoArgs],
     [type |-> "tool_start", call_id |-> "c2", tool |-> "", arguments |-> NoArgs],
     [type |-> "tool_complete", call_id |-> "c1", output |-> <<"o1">>],
     [type |-> "tool_complete", call_id |-> "c1", output |-> <<"o2">>],
     [type |-> "tool_complete", call_id |-> "c2", output |-> <<"o1">>],
     [type |-> "tool_call_progress", call_id |-> "c1", progress_type |-> "log",
      message |-> "l", progress |-> NoNum, total |-> NoNum],
     [type |-> "tool_call_progress", call_id |-> "c1", progress_type |-> "progress",
      message |-> "", progress |-> 1, total |-> 2],
     [type |-> "warning", message |-> "w"],
     [type |-> "ping"]}

InitReducer ==
    /\ session = "A"
    /\ messages = <<UserMsg(<<"p">>), AssistantMsg>>
    /\ loading = FALSE
    /\ sending = TRUE
    /\ seenSending = TRUE
    /\ abortControllerRef = 1
    /\ streams = [s \in 1..MaxStreams |->
                     IF s = 1 THEN [state |-> "open", session |-> "A"] ELSE UnusedStream]
    /\ loads = [s \in Sessions |-> 0]
    /\ cancelsPending = 0
    /\ snap = << >>
    /\ shared = {}
    /\ listOwner = "A"
    /\ budget = [streams |-> 1, switches |-> 0, events |-> MaxReducerEvents, cancels |-> 0,
                 reads |-> 0]
    /\ detail = [s \in Sessions |-> RecordsOf(s)]
    /\ titleTimers = [s \in Sessions |-> 0]
    /\ view = << >>
    /\ lastOp = [op |-> "render"]

NextReducer == \E ev \in ReducerEvents : Deliver(1, ev)

SpecReducer == InitReducer /\ [][NextReducer]_vars

\* ------------------------------------------------------------------------
\* One submission to its end: the stream delivers events, then returns,
\* fails or is aborted by a cancel.  executeStream and cancelTask are promises
\* of fetch calls and settle; renders and timers run; nothing makes the user
\* or the service act.
\* ------------------------------------------------------------------------
InitStream ==
    /\ session = "A"
    /\ messages = <<UserMsg(<<"p">>), AssistantMsg>>
    /\ loading = FALSE
    /\ sending = TRUE
    /\ seenSending = TRUE
    /\ abortControllerRef = 1
    /\ streams = [s \in 1..MaxStreams |->
                     IF s = 1 THEN [state |-> "open", session |-> "A"] ELSE UnusedStream]
    /\ loads = [s \in Sessions |-> 0]
    /\ cancelsPending = 0
    /\ snap = << >>
    /\ shared = {}
    /\ listOwner = "A"
    /\ budget = [streams |-> 1, switches |-> 0, events |-> MaxEvents + 1, cancels |-> 1,
                 reads |-> 0]
    /\ detail = [s \in Sessions |-> RecordsOf(s)]
    /\ titleTimers = [s \in Sessions |-> 0]
    /\ view = << >>
    /\ lastOp = [op |-> "submit", prompt |-> <<"p">>, accepted |-> TRUE]

StreamEnds == StreamReturn(1) \/ StreamFail(1) \/ StreamAborted(1)

NextStream ==
    \/ \E ev \in Events : Deliver(1, ev)
    \/ StreamReturn(1)
    \/ StreamFail(1)
    \/ StreamAborted(1)
    \/ CancelStart
    \/ CancelFinish
    \/ Render
    \/ \E s \in Sessions : TitleRefresh(s)

SpecStream ==
    /\ InitStream
    /\ [][NextStream]_vars
    /\ WF_vars(StreamEnds)
    /\ WF_vars(CancelFinish)
    /\ WF_vars(Render)
    /\ WF_vars(\E s \in Sessions : TitleRefresh(s))

\* ------------------------------------------------------------------------
\* The history load alone: getSessionDetail resolves with a record list drawn
\* from the persisted-record shapes, or with one assistant record whose
\* content is drawn from the marked-up texts.
\* ------------------------------------------------------------------------
SeqsUpTo(S, n) == UNION {[1..k -> S] : k \in 0..n}

RECURSIVE Flatten(_)
Flatten(pieces) == IF Len(pieces) = 0 THEN << >> ELSE Head(pieces) \o Flatten(Tail(pieces))

\* records as the service persists them: role as stored, content as stored
HistoryRecords ==
    {Rec("user", <<"q">>),
     Rec("system", <<"s">>),
     Rec("assistant", <<"x">>),
     Rec("assistant", <<" ">>),
     Rec("assistant", <<CallOpen, JsonA, CallClose>>),
     Rec("Assistant", <<CallOpen, JsonB, CallClose, "y">>),
     Rec("function", <<"y">>),
     Rec("tool", <<"[a]:", " ", "o1">>),
     Rec("tool", <<"[b]:", " ", "o2">>),
     Rec("tool", <<"raw">>)}

RecordLists == SeqsUpTo(HistoryRecords, MaxRecords)

\* the pieces a record content is made of: call blocks, result blocks, text
\* spans and tags without their counterpart
Pieces ==
    {<<CallOpen, JsonA, CallClose>>,
     <<CallOpen, JsonB, CallClose>>,
     <<CallOpen, XmlNameA, XmlArgs, CallClose>>,
     <<CallOpen, BadJson, CallClose>>,
     <<ResultOpenA, "o1", ResultClose>>,
     <<ResultOpenA, "\n", "o2", "\n", ResultClose>>,
     <<ResultOpenB, "o3", ResultClose>>,
     <<"x">>,
     <<" ">>,
     <<CallOpen>>,
     <<CallClose>>}

Texts == {Flatten(pieces) : pieces \in SeqsUpTo(Pieces, MaxPieces)}

NoBudget == [streams |-> 0, switches |-> 0, events |-> 0, cancels |-> 0, reads |-> 0]

\* the state after construction with session A, for each record list the
\* service may hold for A
InitHistory ==
    /\ session = "A"
    /\ messages = << >>
    /\ loading = TRUE
    /\ sending = FALSE
    /\ seenSending = FALSE
    /\ abortControllerRef = 0
    /\ streams = [s \in 1..MaxStreams |-> UnusedStream]
    /\ loads = [s \in Sessions |-> IF s = "A" THEN 1 ELSE 0]
    /\ cancelsPending = 0
    /\ snap = << >>
    /\ shared = {}
    /\ listOwner = NoSession
    /\ budget = NoBudget
    /\ \E records \in RecordLists : detail = [s \in Sessions |-> IF s = "A" THEN records ELSE << >>]
    /\ titleTimers = [s \in Sessions |-> 0]
    /\ view = << >>
    /\ lastOp = [op |-> "init"]

NextHistory == LoadDone("A")

SpecHistory == InitHistory /\ [][NextHistory]_vars

\* the same with one assistant record whose content is a marked-up text
InitParse ==
    /\ session = "A"
    /\ messages = << >>
    /\ loading = TRUE
    /\ sending = FALSE
    /\ seenSending = FALSE
    /\ abortControllerRef = 0
    /\ streams = [s \in 1..MaxStreams |-> UnusedStream]
    /\ loads = [s \in Sessions |-> IF s = "A" THEN 1 ELSE 0]
    /\ cancelsPending = 0
    /\ snap = << >>
    /\ shared = {}
    /\ listOwner = NoSession
    /\ budget = NoBudget
    /\ \E content \in Texts :
           detail = [s \in Sessions |-> IF s = "A" THEN <<Rec("assistant", content)>> ELSE << >>]
    /\ titleTimers = [s \in Sessions |-> 0]
    /\ view = << >>
    /\ lastOp = [op |-> "init"]

NextParse == LoadDone("A")

SpecParse == InitParse /\ [][NextParse]_vars

\* ------------------------------------------------------------------------
\* The bubble alone: the live turn holds one text segment streamed by a delta
\* whose content is drawn from the texts a stream may carry, and the view
\* renders the list.
\* ------------------------------------------------------------------------
FilterTokens == {CallOpen, CallClose, OpenHead, OpenTail, "\n", " ", "x"}

FilterTexts == SeqsUpTo(FilterTokens, MaxFilterLen)

\* what ChatMessageBubble renders for one turn
BubbleOf(msg) ==
    IF msg.role = "user" THEN <<[type |-> "plain", content |-> msg.content]>>
    ELSE IF Len(msg.segments) = 0 /\ msg.status = "streaming" THEN <<[type |-> "typing"]>>
    ELSE [k \in 1..Len(msg.segments) |->
             IF msg.segments[k].type = "text"
             THEN [type |-> "text",
                   content |-> filterToolCallTags(
                                   IF msg.segments[k].content = Undefined THEN << >>
                                   ELSE msg.segments[k].content)]
             ELSE [type |-> "tool", id |-> msg.segments[k].tool.id]]
         \o (IF msg.role = "assistant" /\ msg.status = "streaming"
             THEN <<[type |-> "typing"]>> ELSE << >>)

\* ChatPanel maps the list to one ChatMessageBubble per turn
ChatMessageBubble ==
    /\ view' = [i \in 1..Len(messages) |-> BubbleOf(messages[i])]
    /\ view' # view
    /\ lastOp' = [op |-> "bubble"]
    /\ UNCHANGED <<session, messages, loading, sending, seenSending, abortControllerRef,
                   streams, loads, cancelsPending, snap, shared, listOwner, budget, detail,
                   titleTimers>>

InitFilter ==
    /\ session = "A"
    /\ \E text \in FilterTexts :
           messages = <<UserMsg(<<"p">>),
                        ApplyEvent(AssistantMsg, [type |-> "delta", content |-> text])>>
    /\ loading = FALSE
    /\ sending = TRUE
    /\ seenSending = TRUE
    /\ abortControllerRef = 1
    /\ streams = [s \in 1..MaxStreams |->
                     IF s = 1 THEN [state |-> "open", session |-> "A"] ELSE UnusedStream]
    /\ loads = [s \in Sessions |-> 0]
    /\ cancelsPending = 0
    /\ snap = << >>
    /\ shared = {}
    /\ listOwner = "A"
    /\ budget = NoBudget
    /\ detail = [s \in Sessions |-> RecordsOf(s)]
    /\ titleTimers = [s \in Sessions |-> 0]
    /\ view = << >>
    /\ lastOp = [op |-> "event", ev |-> [type |-> "delta"]]

NextFilter == ChatMessageBubble

SpecFilter == InitFilter /\ [][NextFilter]_vars

\* ------------------------------------------------------------------------
\* Properties
\* ------------------------------------------------------------------------
Last(list) == list[Len(list)]
HasLiveLast == Len(messages) > 0 /\ Last(messages).role = "assistant"
LiveSegments == Last(messages).segments
Finalized(turn) == turn.status \in {"completed", "error"}

\* number of cancellation notices a text carries
NoticeCount(text) == Cardinality({i \in 1..Len(text) : text[i] = CancelNotice[3]})

ToolIndexes(segments) == {k \in 1..Len(segments) : segments[k].type = "tool"}

\* C1: once the session has changed and the list belongs to the new session,
\* an event delivered by a stream opened for the previous session changes no
\* turn of the list.
C1_StaleStreamIsolation ==
    [][(lastOp'.op = "event" /\ lastOp'.stale /\ listOwner = session)
          => messages' = messages]_vars

\* C2: a cancel on a streaming turn sets it to error with exactly one
\* cancellation notice, and a second cancel right after it leaves the turn in
\* error with exactly one notice.
C2_CancelExactlyOnce ==
    [][(lastOp'.op = "cancel" /\ HasLiveLast
           /\ \/ Last(messages).status = "streaming"
              \/ (lastOp.op = "cancel" /\ lastOp.was = "streaming"))
          => /\ Last(messages').status = "error"
             /\ NoticeCount(Last(messages').content) = 1]_vars

\* C3: at most one stream opened by sendMessage is open at any time.
C3_AtMostOneOpenStream == Cardinality(OpenStreams) <= 1

\* C4: a turn whose status is completed or error is not changed by a stream
\* event, a cancel or the stream-failure handler.
C4_FinalizedImmutable ==
    [][lastOp'.op \in {"event", "cancel", "streamFail"}
          => \A i \in 1..Len(messages) :
                 Finalized(messages[i]) => (i <= Len(messages') /\ messages'[i] = messages[i])]_vars

\* C5: no operation other than a session switch or clear removes a turn: the
\* turns present before are still there, in the same order.
C5_NoTurnRemoved ==
    [][lastOp'.op # "switch"
          => /\ Len(messages') >= Len(messages)
             /\ \A i \in 1..Len(messages) :
                    /\ messages'[i].id = messages[i].id
                    /\ messages'[i].role = messages[i].role]_vars

\* C6: no operation modifies a turn object of a list published earlier: what
\* a reader holds changes only when the reader reads again.
C6_CopyOnWrite == [][lastOp'.op # "read" => snap' = snap]_vars

\* C7: once a tool segment of the live turn is done, no event changes its
\* output or status, and its id is not a key of pendingToolCalls.
C7_OutputSetOnce ==
    [][HasLiveLast =>
          \A k \in ToolIndexes(LiveSegments) :
              LiveSegments[k].tool.status = "done"
                  => /\ LiveSegments[k].tool.id \notin DOMAIN Last(messages).pending
                     /\ k <= Len(LiveSegments')
                     /\ LiveSegments'[k].tool.status = "done"
                     /\ LiveSegments'[k].tool.output = LiveSegments[k].tool.output]_vars

\* C8: tool_complete(id, output) for an id started earlier and not completed
\* since removes id from pendingToolCalls, sets the running segment with that
\* id to done with that output at the same position, and changes no other
\* segment.
C8_ToolCompleteResolves ==
    [][(/\ lastOp'.op = "event"
        /\ lastOp'.ev.type = "tool_complete"
        /\ HasLiveLast
        /\ lastOp'.ev.call_id \in DOMAIN Last(messages).pending
        /\ Cardinality({k \in ToolIndexes(LiveSegments) :
                           /\ LiveSegments[k].tool.id = lastOp'.ev.call_id
                           /\ LiveSegments[k].tool.status = "running"}) = 1)
          => /\ lastOp'.ev.call_id \notin DOMAIN Last(messages').pending
             /\ Len(LiveSegments') = Len(LiveSegments)
             /\ \A k \in 1..Len(LiveSegments) :
                    IF /\ LiveSegments[k].type = "tool"
                       /\ LiveSegments[k].tool.id = lastOp'.ev.call_id
                       /\ LiveSegments[k].tool.status = "running"
                    THEN /\ LiveSegments'[k].type = "tool"
                         /\ LiveSegments'[k].tool.id = lastOp'.ev.call_id
                         /\ LiveSegments'[k].tool.status = "done"
                         /\ LiveSegments'[k].tool.output = lastOp'.ev.output
                    ELSE LiveSegments'[k] = LiveSegments[k]]_vars

\* C9: in every turn of the list the ids of the tool segments are pairwise
\* distinct.
C9_UniqueToolIds ==
    \A i \in 1..Len(messages) :
        \A j, k \in ToolIndexes(messages[i].segments) :
            j # k => messages[i].segments[j].tool.id # messages[i].segments[k].tool.id

\* kind and tool id of a segment
KindId(seg) == IF seg.type = "tool" THEN <<"tool", seg.tool.id>> ELSE <<"text", "">>

NoAdjacentText(segments) ==
    \A k \in 1..(Len(segments) - 1) :
        ~(segments[k].type = "text" /\ segments[k + 1].type = "text")

\* a turn created by sendMessage
IsLive(turn) == turn.id = "now+1"

\* C10: the segments of a turn built live only grow at the end: every earlier
\* segment keeps its position, kind and tool id, and no two text segments are
\* adjacent.
C10_AppendOnlySegments ==
    [][\A i \in 1..Len(messages) :
          (IsLive(messages[i]) /\ i <= Len(messages') /\ IsLive(messages'[i]))
              => /\ Len(messages'[i].segments) >= Len(messages[i].segments)
                 /\ \A k \in 1..Len(messages[i].segments) :
                        KindId(messages'[i].segments[k]) = KindId(messages[i].segments[k])
                 /\ NoAdjacentText(messages'[i].segments)]_vars

\* C10 witness: deltas and a tool_start built text, tool, text and the text
\* after the tool took a second increment
C10_Witness ==
    /\ lastOp.op = "event"
    /\ lastOp.ev.type = "delta"
    /\ HasLiveLast
    /\ IsLive(Last(messages))
    /\ Len(LiveSegments) = 3
    /\ LiveSegments[1].type = "text"
    /\ LiveSegments[2].type = "tool"
    /\ LiveSegments[3].type = "text"
    /\ LiveSegments[3].content = <<"d", "d">>

\* ------------------------------------------------------------------------
\* C11: a delta applied to a live turn appends its increment to the last
\* segment when that segment is text and otherwise pushes one text segment
\* holding the increment; a streaming turn that received only deltas has
\* exactly one text segment, whose content is the increments concatenated in
\* arrival order (the turn's content).
\* ------------------------------------------------------------------------
IsDelta(ev) == ev.type \in {"delta", "assistant_message_delta"}

C11_DeltaAppendsOrPushes ==
    [][(lastOp'.op = "event" /\ IsDelta(lastOp'.ev) /\ HasLiveLast)
          => /\ Len(messages') = Len(messages)
             /\ IF Len(LiveSegments) > 0 /\ Last(LiveSegments).type = "text"
                THEN /\ Len(LiveSegments') = Len(LiveSegments)
                     /\ Last(LiveSegments') =
                            TextSeg(Last(LiveSegments).content \o lastOp'.ev.content)
                     /\ \A k \in 1..(Len(LiveSegments) - 1) :
                            LiveSegments'[k] = LiveSegments[k]
                ELSE LiveSegments' = LiveSegments \o <<TextSeg(lastOp'.ev.content)>>
             /\ (Last(messages').status = "streaming" /\ ToolIndexes(LiveSegments') = {})
                    => /\ Len(LiveSegments') = 1
                       /\ LiveSegments'[1] = TextSeg(Last(messages').content)]_vars

\* C11 witness: two deltas with different increments on a turn without
\* segments left one text segment holding both in arrival order
C11_Witness ==
    /\ lastOp.op = "event"
    /\ IsDelta(lastOp.ev)
    /\ HasLiveLast
    /\ Last(messages).status = "streaming"
    /\ LiveSegments = <<TextSeg(<<"d", "e">>)>>

\* ------------------------------------------------------------------------
\* Reconciliation described over the record list
\* ------------------------------------------------------------------------
Loaded == detail[session]
IsTurnBreak(rec) == normalizeRole(rec.role) \in {"user", "system"}

\* first records of the maximal runs of records that are not user or system
RunStarts(records) ==
    {i \in 1..Len(records) :
        ~IsTurnBreak(records[i]) /\ (i = 1 \/ IsTurnBreak(records[i - 1]))}

RunEnd(records, i) ==
    CHOOSE j \in i..Len(records) :
        /\ \A m \in i..j : ~IsTurnBreak(records[m])
        /\ (j = Len(records) \/ IsTurnBreak(records[j + 1]))

RunsStartWithAssistant(records) ==
    \A i \in RunStarts(records) : normalizeRole(records[i].role) = "assistant"

\* the records that open a turn: every user or system record and every run start
TurnRecords(records) == {i \in 1..Len(records) : IsTurnBreak(records[i])} \cup RunStarts(records)

Nth(S, k) == CHOOSE i \in S : Cardinality({j \in S : j <= i}) = k
MaxOf(S) == CHOOSE i \in S : \A j \in S : j <= i
MinOf(S) == CHOOSE i \in S : \A j \in S : i <= j

\* what a segment shows: its text, or its tool's name, status and output
SegView(seg) ==
    IF seg.type = "text" THEN [type |-> "text", content |-> seg.content]
    ELSE [type |-> "tool", name |-> seg.tool.name, status |-> seg.tool.status,
          output |-> seg.tool.output]

Views(segments) == [k \in 1..Len(segments) |-> SegView(segments[k])]

NonBlankViews(views) ==
    SelectSeq(views, LAMBDA v : v.type = "tool" \/ ~(Len(v.content) = 0 \/ IsBlank(v.content)))

UnsetTools(views) == {k \in 1..Len(views) : views[k].type = "tool" /\ views[k].output = Undefined}

\* where a tool record's output goes: the highest unset tool of that name,
\* else the highest unset tool, else 0 (a new segment)
TargetOf(views, name) ==
    LET named == {k \in UnsetTools(views) : views[k].name = name}
    IN  IF named # {} THEN MaxOf(named)
        ELSE IF UnsetTools(views) # {} THEN MaxOf(UnsetTools(views)) ELSE 0

ToolEffect(views, name, output) ==
    IF TargetOf(views, name) = 0
    THEN Append(views, [type |-> "tool", name |-> name, status |-> "done", output |-> output])
    ELSE [views EXCEPT ![TargetOf(views, name)].output = output,
                       ![TargetOf(views, name)].status = "done"]

\* the views of the turn of the run records[i..j]
RECURSIVE RunViews(_, _, _)
RunViews(records, i, j) ==
    IF j = i THEN Views(parseMessageContent(records[i].content))
    ELSE IF normalizeRole(records[j].role) = "tool"
         THEN ToolEffect(RunViews(records, i, j - 1),
                         parseToolMemoryMessage(records[j].content).name,
                         parseToolMemoryMessage(records[j].content).output)
         ELSE RunViews(records, i, j - 1)
                  \o NonBlankViews(Views(parseMessageContent(records[j].content)))

\* C12: when every run of records that are not user or system starts with an
\* assistant record, the loaded list has one turn per user or system record
\* and one assistant turn per run, in record order, and the segments of a
\* run's turn are the parsed segments of its first record followed, in record
\* order, by the effect of each absorbed record.
C12_OneTurnPerRun ==
    (lastOp.op = "loadDone" /\ RunsStartWithAssistant(Loaded))
        => /\ Len(messages) = Cardinality(TurnRecords(Loaded))
           /\ \A k \in 1..Len(messages) :
                  LET i == Nth(TurnRecords(Loaded), k)
                  IN  IF IsTurnBreak(Loaded[i])
                      THEN /\ messages[k].role = normalizeRole(Loaded[i].role)
                           /\ messages[k].segments = <<TextSeg(Loaded[i].content)>>
                      ELSE /\ messages[k].role = "assistant"
                           /\ Views(messages[k].segments) = RunViews(Loaded, i, RunEnd(Loaded, i))

\* C12 witness: user, assistant text, tool record, assistant text loaded as a
\* user turn and one assistant turn with text, resolved tool, text
C12_Witness ==
    /\ lastOp.op = "loadDone"
    /\ Loaded = <<Rec("user", <<"q">>), Rec("assistant", <<"x">>),
                  Rec("tool", <<"[a]:", " ", "o1">>), Rec("function", <<"y">>)>>
    /\ Len(messages) = 2
    /\ messages[1].role = "user"
    /\ Views(messages[2].segments) =
           <<[type |-> "text", content |-> <<"x">>],
             [type |-> "tool", name |-> "a", status |-> "done", output |-> <<"o1">>],
             [type |-> "text", content |-> <<"y">>]>>

\* C13: the loaded list never has two assistant turns next to each other.
C13_NoAdjacentAssistantTurns ==
    lastOp.op = "loadDone"
        => \A k \in 1..(Len(messages) - 1) :
               ~(messages[k].role = "assistant" /\ messages[k + 1].role = "assistant")

\* the last record is a tool record absorbed into a merged assistant turn:
\* an assistant record comes before it in its run
LastIsAbsorbedTool(records) ==
    /\ Len(records) >= 2
    /\ normalizeRole(records[Len(records)].role) = "tool"
    /\ \E m \in 1..(Len(records) - 1) :
           /\ normalizeRole(records[m].role) = "assistant"
           /\ \A r \in m..Len(records) : ~IsTurnBreak(records[r])

\* C14: absorbing a tool record (name, output) changes or adds exactly one
\* tool segment of the merged turn: the highest-index tool segment with unset
\* output and that name, else the highest-index tool segment with unset
\* output, else a new done tool segment at the end; every other segment and
\* every other turn is as it is without that record.
C14_ToolRecordAttachment ==
    (lastOp.op = "loadDone" /\ LastIsAbsorbedTool(Loaded))
        => LET without == Reconcile(SubSeq(Loaded, 1, Len(Loaded) - 1))
               before == Last(without).segments
               after == Last(messages).segments
               rec == parseToolMemoryMessage(Loaded[Len(Loaded)].content)
               target == TargetOf(Views(before), rec.name)
           IN  /\ Len(messages) = Len(without)
               /\ \A k \in 1..(Len(messages) - 1) : messages[k] = without[k]
               /\ IF target # 0
                  THEN /\ Len(after) = Len(before)
                       /\ after[target] = [before[target] EXCEPT !.tool.output = rec.output,
                                                                  !.tool.status = "done"]
                       /\ \A k \in 1..Len(before) : k # target => after[k] = before[k]
                  ELSE /\ Len(after) = Len(before) + 1
                       /\ \A k \in 1..Len(before) : after[k] = before[k]
                       /\ SegView(Last(after)) =
                              [type |-> "tool", name |-> rec.name, status |-> "done",
                               output |-> rec.output]

\* C14 witness: two unresolved calls of tool a and a tool record for a: the
\* output went to the later call and the earlier one is still unset
C14_Witness ==
    /\ lastOp.op = "loadDone"
    /\ Loaded = <<Rec("assistant", <<CallOpen, JsonA, CallClose>>),
                  Rec("assistant", <<CallOpen, JsonA, CallClose>>),
                  Rec("tool", <<"[a]:", " ", "o1">>)>>
    /\ Len(messages) = 1
    /\ Len(messages[1].segments) = 2
    /\ messages[1].segments[1].tool.output = Undefined
    /\ messages[1].segments[2].tool.output = <<"o1">>

\* ------------------------------------------------------------------------
\* Parsing described over the blocks of a text
\* ------------------------------------------------------------------------
ParsedText == Loaded[1].content
ParsedSegments == messages[1].segments
ParseDone == lastOp.op = "loadDone" /\ Len(Loaded) = 1 /\ Len(messages) = 1

IsTag(tok) == tok \in {CallOpen, CallClose, ResultClose} \/ IsResultOpen(tok)

\* position of the first close tag after the open tag at 1 when no other tag
\* lies between them, else 0
BlockEnd(text, close) ==
    LET ends == {q \in 2..Len(text) : text[q] = close}
    IN  IF ends # {} /\ \A m \in 2..(MinOf(ends) - 1) : ~IsTag(text[m])
        THEN MinOf(ends) ELSE 0

\* the blocks of a text in order: call blocks, result blocks and plain
\* tokens; a tag that is not part of a well-formed block gives a stray block
RECURSIVE BlocksOf(_)
BlocksOf(text) ==
    IF Len(text) = 0 THEN << >>
    ELSE IF text[1] = CallOpen
         THEN IF BlockEnd(text, CallClose) = 0 THEN <<[kind |-> "stray"]>>
              ELSE <<[kind |-> "call",
                      payload |-> SubSeq(text, 2, BlockEnd(text, CallClose) - 1)]>>
                       \o BlocksOf(SubSeq(text, BlockEnd(text, CallClose) + 1, Len(text)))
    ELSE IF IsResultOpen(text[1])
         THEN IF BlockEnd(text, ResultClose) = 0 THEN <<[kind |-> "stray"]>>
              ELSE <<[kind |-> "result", name |-> ResultName(text[1]),
                      inner |-> SubSeq(text, 2, BlockEnd(text, ResultClose) - 1)]>>
                       \o BlocksOf(SubSeq(text, BlockEnd(text, ResultClose) + 1, Len(text)))
    ELSE IF IsTag(text[1]) THEN <<[kind |-> "stray"]>>
    ELSE <<[kind |-> "plain"]>> \o BlocksOf(Tail(text))

WellFormed(text) == \A k \in 1..Len(BlocksOf(text)) : BlocksOf(text)[k].kind # "stray"

CallName(payload) ==
    IF parseToolCallPayload(payload).name = "undefined" THEN "tool"
    ELSE parseToolCallPayload(payload).name

\* the inner text of a result block without its leading and trailing newlines
ResultText(inner) == StripNewlinesRight(StripNewlinesLeft(inner))

\* name and output of the tools of the first n blocks when each result goes to
\* the oldest call of its name that has no output yet, and stands alone if
\* there is none
RECURSIVE FifoTools(_, _)
FifoTools(blocks, n) ==
    IF n = 0 THEN << >>
    ELSE LET prev == FifoTools(blocks, n - 1)
             b == blocks[n]
             open == {k \in 1..Len(prev) :
                         prev[k].name = b.name /\ prev[k].output = Undefined}
         IN  IF b.kind = "call"
             THEN Append(prev, [name |-> CallName(b.payload), output |-> Undefined])
             ELSE IF b.kind = "result"
             THEN IF open = {}
                  THEN Append(prev, [name |-> b.name, output |-> ResultText(b.inner)])
                  ELSE [prev EXCEPT ![MinOf(open)].output = ResultText(b.inner)]
             ELSE prev

ToolsOf(segments) ==
    LET tools == SelectSeq(segments, LAMBDA seg : seg.type = "tool")
    IN  [k \in 1..Len(tools) |-> [name |-> tools[k].tool.name, output |-> tools[k].tool.output]]

\* C15: in one parse every result block resolves the oldest earlier call
\* block of its own name that has no output yet (two calls of a followed by
\* two results of a: first result to first call, second to second), never a
\* call of another name.
C15_ResultsPairFifo ==
    (ParseDone /\ WellFormed(ParsedText))
        => ToolsOf(ParsedSegments) = FifoTools(BlocksOf(ParsedText), Len(BlocksOf(ParsedText)))

\* C15 witness: call a, call a, result o1 for a, result o2 for a
C15_Witness ==
    /\ ParseDone
    /\ ParsedText = <<CallOpen, JsonA, CallClose, CallOpen, JsonA, CallClose,
                      ResultOpenA, "o1", ResultClose,
                      ResultOpenA, "\n", "o2", "\n", ResultClose>>
    /\ ToolsOf(ParsedSegments) =
           <<[name |-> "a", output |-> <<"o1">>], [name |-> "a", output |-> <<"o2">>]>>

\* the start of the result block that ends the text, 0 if the text does not end
\* with a result block found by the scan: a result-open tag, no tag up to the
\* final result-close tag, and no result-open tag before it left without its
\* close tag
FinalResultStart(text) ==
    LET starts == {p \in 1..(Len(text) - 1) :
                      /\ IsResultOpen(text[p])
                      /\ text[Len(text)] = ResultClose
                      /\ \A m \in (p + 1)..(Len(text) - 1) : ~IsTag(text[m])
                      /\ \A q \in 1..(p - 1) :
                             IsResultOpen(text[q])
                                 => \E r \in (q + 1)..(p - 1) : text[r] = ResultClose}
    IN  IF starts = {} THEN 0 ELSE MinOf(starts)

\* the segments of the text in front of a block: nothing when it is empty or blank
SegmentsBefore(text) ==
    IF Len(text) = 0 \/ IsBlank(text) THEN << >> ELSE parseMessageContent(text)

NoMarkup(text) ==
    \A p \in 1..Len(text) :
        /\ text[p] = CallOpen => \A q \in (p + 1)..Len(text) : text[q] # CallClose
        /\ IsResultOpen(text[p]) => \A q \in (p + 1)..Len(text) : text[q] # ResultClose

\* C17: a text without a complete call block or result block (the empty
\* text, blank text and text with an unterminated call-open tag included)
\* parses to exactly one text segment equal to the text, and parsing that
\* segment's content gives the same segments.
C17_PlainTextFixedPoint ==
    (ParseDone /\ NoMarkup(ParsedText))
        => /\ ParsedSegments = <<TextSeg(ParsedText)>>
           /\ parseMessageContent(ParsedSegments[1].content) = ParsedSegments

\* C17 witness: a blank text came back as one text segment holding it
C17_Witness ==
    /\ ParseDone
    /\ ParsedText = <<" ">>
    /\ ParsedSegments = <<TextSeg(<<" ">>)>>

\* ------------------------------------------------------------------------
\* Submit and cancel
\* ------------------------------------------------------------------------

\* C18: a submit with a non-blank prompt, an active session and the sending
\* flag clear appends a user turn whose single text segment is the prompt and
\* then a streaming assistant turn without segments and pending calls, and
\* leaves the earlier turns as they are; any other submit changes neither the
\* list nor the flag.
C18_SubmitAppendsPair ==
    [][lastOp'.op = "submit"
          => IF ~IsBlank(lastOp'.prompt) /\ session # NoSession /\ ~sending
             THEN /\ Len(messages') = Len(messages) + 2
                  /\ SubSeq(messages', 1, Len(messages)) = messages
                  /\ messages'[Len(messages) + 1].role = "user"
                  /\ messages'[Len(messages) + 1].segments = <<TextSeg(lastOp'.prompt)>>
                  /\ messages'[Len(messages) + 2].role = "assistant"
                  /\ messages'[Len(messages) + 2].status = "streaming"
                  /\ messages'[Len(messages) + 2].segments = << >>
                  /\ messages'[Len(messages) + 2].pending = EmptyMap
             ELSE /\ messages' = messages
                  /\ sending' = sending]_vars

EndsWith(text, suffix) ==
    /\ Len(text) >= Len(suffix)
    /\ SubSeq(text, Len(text) - Len(suffix) + 1, Len(text)) = suffix

TextIndexes(segments) == {k \in 1..Len(segments) : segments[k].type = "text"}

\* C19: a cancel that finds a streaming assistant turn last leaves it in
\* error with the sending flag clear, and the last text segment of its
\* segments ends with the cancellation notice.
C19_CancelNoticeInSegments ==
    [][(lastOp'.op = "cancel" /\ HasLiveLast /\ Last(messages).status = "streaming")
          => /\ Last(messages').status = "error"
             /\ ~sending'
             /\ TextIndexes(LiveSegments') # {}
             /\ EndsWith(LiveSegments'[MaxOf(TextIndexes(LiveSegments'))].content,
                         CancelNotice)]_vars

\* C20: a cancel invoked while one stream is open closes it, every cancel
\* puts the server-side cancel request under way, and every cancel ends with
\* the sending flag clear.
C20_CancelClosesStream ==
    [][/\ (lastOp'.op = "cancelStart" /\ Cardinality(OpenStreams) = 1) => OpenStreams' = {}
       /\ lastOp'.op = "cancelStart" => cancelsPending' = cancelsPending + 1
       /\ lastOp'.op = "cancel" => ~sending']_vars

\* ------------------------------------------------------------------------
\* Terminal and ignored events
\* ------------------------------------------------------------------------
EventOnLiveTurn(types) == lastOp'.op = "event" /\ lastOp'.ev.type \in types /\ HasLiveLast

\* "\n\n[" error, else reason, else the default text "]"
BracketedReason(ev) ==
    <<"\n", "\n",
      "[" \o (IF ev.error # "" THEN ev.error
              ELSE IF ev.reason # "" THEN ev.reason ELSE DefaultReason) \o "]">>

\* C21: task_failed or task_aborted on a live turn sets status error, appends
\* the bracketed error or reason to the last segment when it is text and
\* pushes one text segment holding it otherwise, appends the same string to
\* the content, leaves tool segments and pendingToolCalls as they are and
\* clears the sending flag.
C21_FailureAppendsNotice ==
    [][EventOnLiveTurn({"task_failed", "task_aborted"})
          => /\ Last(messages').status = "error"
             /\ Last(messages').content = Last(messages).content \o BracketedReason(lastOp'.ev)
             /\ IF Len(LiveSegments) > 0 /\ Last(LiveSegments).type = "text"
                THEN /\ Len(LiveSegments') = Len(LiveSegments)
                     /\ Last(LiveSegments') =
                            TextSeg(Last(LiveSegments).content \o BracketedReason(lastOp'.ev))
                     /\ \A k \in 1..(Len(LiveSegments) - 1) :
                            LiveSegments'[k] = LiveSegments[k]
                ELSE LiveSegments' = LiveSegments \o <<TextSeg(BracketedReason(lastOp'.ev))>>
             /\ Last(messages').pending = Last(messages).pending
             /\ ~sending']_vars

\* C21 witness: a failure on a streaming turn that ended with a running tool
\* segment pushed a text segment holding the bracketed error
C21_Witness ==
    /\ lastOp.op = "event"
    /\ lastOp.ev.type = "task_failed"
    /\ HasLiveLast
    /\ Last(messages).status = "error"
    /\ Len(LiveSegments) = 2
    /\ LiveSegments[1].type = "tool"
    /\ LiveSegments[1].tool.status = "running"
    /\ LiveSegments[2] = TextSeg(<<"\n", "\n", "[boom]">>)
    /\ ~sending

\* C22: a completion event on a live turn sets status completed, replaces the
\* content by the event's content only when that is not empty, leaves the
\* segments and pendingToolCalls as they are and clears the sending flag.
C22_CompletionFrame ==
    [][EventOnLiveTurn({"task_completed", "assistant_message_completed"})
          => /\ Last(messages').status = "completed"
             /\ Last(messages').content =
                    IF Len(lastOp'.ev.content) > 0 THEN lastOp'.ev.content
                    ELSE Last(messages).content
             /\ LiveSegments' = LiveSegments
             /\ Last(messages').pending = Last(messages).pending
             /\ ~sending']_vars

\* C22 witness: a completion without content after a delta kept the content
C22_Witness ==
    /\ lastOp.op = "event"
    /\ lastOp.ev.type = "assistant_message_completed"
    /\ Len(lastOp.ev.content) = 0
    /\ HasLiveLast
    /\ Last(messages).status = "completed"
    /\ Last(messages).content = <<"d">>
    /\ LiveSegments = <<TextSeg(<<"d">>)>>
    /\ ~sending

KnownEventTypes ==
    {"delta", "assistant_message_delta", "task_completed", "assistant_message_completed",
     "task_failed", "task_aborted", "tool_start", "tool_complete", "tool_call_progress",
     "warning"}

\* an event the reducer has nothing to do for
IsIgnored(ev, turn) ==
    \/ ev.type \notin KnownEventTypes
    \/ ev.type = "warning"
    \/ ev.type \in {"tool_complete", "tool_call_progress"} /\ ev.call_id \notin DOMAIN turn.pending

\* C23: an event of an unrecognized type, a warning, and a tool_complete or
\* tool_call_progress whose call id is not in pendingToolCalls leave the turn
\* and the sending flag as they are.
C23_IgnoredEventsNoOp ==
    [][(lastOp'.op = "event" /\ HasLiveLast /\ IsIgnored(lastOp'.ev, Last(messages)))
          => /\ messages' = messages
             /\ sending' = sending]_vars

\* C23 witness: a second tool_complete for a call completed before, with
\* another output, left the first output in place
C23_Witness ==
    /\ lastOp.op = "event"
    /\ lastOp.ev.type = "tool_complete"
    /\ lastOp.ev.output = <<"o2">>
    /\ HasLiveLast
    /\ lastOp.ev.call_id \notin DOMAIN Last(messages).pending
    /\ Len(LiveSegments) = 1
    /\ LiveSegments[1].type = "tool"
    /\ LiveSegments[1].tool.id = lastOp.ev.call_id
    /\ LiveSegments[1].tool.output = <<"o1">>

\* ------------------------------------------------------------------------
\* History loads and session changes
\* ------------------------------------------------------------------------

\* C24: when the history fetch of a session fails, the turn list becomes
\* empty and the loading flag becomes false.
C24_LoadFailureEmptiesList ==
    [][lastOp'.op = "loadFail" => (messages' = << >> /\ ~loading')]_vars

\* C24 witness: a fetch failed after a submission had put turns on the list
C24_Witness ==
    /\ lastOp.op = "loadFail"
    /\ UsedStreams # {}
    /\ messages = << >>
    /\ ~loading

\* C25: every terminal event applied to the live turn, completion as well as
\* failure or abort, sets exactly one title-refresh timer for the session of
\* its stream, and no other event sets one.
C25_TerminalEventsRefreshTitle ==
    [][(lastOp'.op = "event" /\ HasLiveLast)
          => \E s \in Sessions :
                 /\ \A o \in Sessions \ {s} : titleTimers'[o] = titleTimers[o]
                 /\ titleTimers'[s] = titleTimers[s] + (IF ClearsSending(lastOp'.ev) THEN 1 ELSE 0)]_vars

\* C27: once no history fetch is in flight, the list is the one of the
\* current session: with no submission made since, it holds the
\* reconciliation of the records of the current session, or nothing (no
\* session, or its fetch failed); turns of another session are never left
\* installed.
C27_ListBelongsToCurrentSession ==
    ((\A s \in Sessions : loads[s] = 0) /\ UsedStreams = {})
        => /\ listOwner = session
           /\ messages \in {<< >>} \cup (IF session = NoSession THEN {}
                                         ELSE {Reconcile(detail[session])})

\* C28: a cancel that finishes right after a submission was accepted (the
\* submission came in while the cancel was awaiting the server) leaves the
\* turns of that submission and its sending flag as they are.
C28_CancelSparesLaterSubmission ==
    [][(lastOp'.op = "cancel" /\ lastOp.op = "submit" /\ lastOp.accepted)
          => (messages' = messages /\ sending' = sending)]_vars

\* C29: the abort handle refers to every stream that is open, so at most one
\* stream is open and it is the one a cancel or a session change aborts.
C29_HandleTracksOpenStream ==
    \A s \in OpenStreams : abortControllerRef = s

\* C30: the sending flag is true whenever a stream is open.
C30_SendingWhileStreamOpen ==
    OpenStreams # {} => sending

\* ------------------------------------------------------------------------
\* The rendered text
\* ------------------------------------------------------------------------
\* the content of the text segment of the live turn, and what was rendered
\* for it
StreamedText == Last(messages).segments[1].content
RenderedText == Last(view)[1].content

Rendered ==
    /\ lastOp.op = "bubble"
    /\ Len(Last(messages).segments) > 0
    /\ Last(messages).segments[1].type = "text"

HasNewlineRun(text, n) ==
    \E p \in 1..(Len(text) - n + 1) : \A k \in p..(p + n - 1) : text[k] = "\n"

\* C26: the text filterToolCallTags returns holds no call-open tag, whether
\* as one token or as its two halves next to each other, and no three
\* newlines in a row, and filtering it again returns it unchanged.
C26_FilterStripsCallMarkup ==
    Rendered =>
        /\ \A p \in 1..Len(JoinTags(RenderedText)) : JoinTags(RenderedText)[p] # CallOpen
        /\ ~HasNewlineRun(RenderedText, 3)
        /\ filterToolCallTags(RenderedText) = RenderedText

\* C26 witness: a text with a complete call block followed by an unterminated
\* one was rendered as the text before them
C26_Witness ==
    /\ Rendered
    /\ StreamedText = <<"x", CallOpen, CallClose, CallOpen, "x">>
    /\ RenderedText = <<"x">>

\* ------------------------------------------------------------------------
\* The end of a submission
\* ------------------------------------------------------------------------
\* C31: the turn of a submission, created with status streaming, eventually
\* has status completed or error, however its stream ends.
C31_StreamingTurnFinishes ==
    <>(Last(messages).status \in {"completed", "error"})

\* C32: after an accepted submit whose stream call settles, the sending flag
\* eventually is false and the abort handle released, and they stay so while
\* nothing is submitted.
C32_SubmitReleasesFlagAndHandle ==
    <>[](~sending /\ abortControllerRef = 0)

\* C32 witness: the stream returned without a terminal event and the flag
\* and the handle are released
C32_Witness ==
    /\ lastOp.op = "streamReturn"
    /\ Last(messages).status = "streaming"
    /\ streams[1].state = "closed"
    /\ ~sending
    /\ abortControllerRef = 0

\* the last turn is an assistant turn that cancel has marked
CancelledLast ==
    /\ Len(messages) > 0
    /\ Last(messages).role = "assistant"
    /\ Last(messages).status = "error"
    /\ EndsWith(Last(messages).content, CancelNotice)

\* C33: once cancel has marked the last turn, an event a stream delivers
\* changes no turn.
C33_NoEventAfterCancel ==
    [][(lastOp'.op = "event" /\ CancelledLast) => messages' = messages]_vars

\* ------------------------------------------------------------------------
\* Tool calls of the live turn
\* ------------------------------------------------------------------------
RunningTools(turn) ==
    {k \in ToolIndexes(turn.segments) : turn.segments[k].tool.status = "running"}

\* C34: in the live turn a call id is a key of pendingToolCalls exactly when a
\* tool segment with that id has status running, and the call stored under
\* the key is the call of every such segment.
C34_PendingAgreesWithSegments ==
    HasLiveLast =>
        LET turn == Last(messages)
        IN  /\ DOMAIN turn.pending = {turn.segments[k].tool.id : k \in RunningTools(turn)}
            /\ \A k \in RunningTools(turn) :
                   turn.pending[turn.segments[k].tool.id] = turn.segments[k].tool

\* C35: a turn with status completed or error has no tool segment with status
\* running and an empty pendingToolCalls.
C35_FinalizedTurnHasNoRunningTool ==
    \A i \in 1..Len(messages) :
        Finalized(messages[i])
            => (RunningTools(messages[i]) = {} /\ DOMAIN messages[i].pending = {})

\* ------------------------------------------------------------------------
\* Frame of a stream event
\* ------------------------------------------------------------------------
\* C36: a stream event leaves the length of the list and every turn but the
\* last unchanged, and when the list is empty or its last turn is not an
\* assistant turn it changes nothing: no turn, not the sending flag, no timer.
C36_EventTouchesOnlyLiveLast ==
    [][lastOp'.op = "event"
          => /\ Len(messages') = Len(messages)
             /\ \A i \in 1..(Len(messages) - 1) : messages'[i] = messages[i]
             /\ ~HasLiveLast
                    => (messages' = messages /\ sending' = sending
                        /\ titleTimers' = titleTimers)]_vars

\* C36 witness: a completion event arrived while the last turn was the user
\* turn a history load had installed, and the flag is still set
C36_Witness ==
    /\ lastOp.op = "event"
    /\ lastOp.ev.type = "task_completed"
    /\ Len(messages) > 0
    /\ Last(messages).role = "user"
    /\ sending

\* ------------------------------------------------------------------------
\* Content and text segments of the live turn
\* ------------------------------------------------------------------------
RECURSIVE TextOf(_)
TextOf(segments) ==
    IF Len(segments) = 0 THEN << >>
    ELSE (IF Head(segments).type = "text" THEN Head(segments).content ELSE << >>)
             \o TextOf(Tail(segments))

ContentIsText(turn) == turn.content = TextOf(turn.segments)

\* C37: an event other than a completion applied to a live turn whose content
\* is the concatenation of the contents of its text segments leaves it so;
\* the turn of a submission starts with empty content and no segment.
C37_ContentIsConcatenation ==
    [][(lastOp'.op = "event" /\ HasLiveLast /\ ContentIsText(Last(messages))
           /\ lastOp'.ev.type \notin {"task_completed", "assistant_message_completed"})
          => ContentIsText(Last(messages'))]_vars

\* C37 witness: text, a tool call, text again and a failure notice, with the
\* content equal to the three texts in a row
C37_Witness ==
    /\ HasLiveLast
    /\ lastOp.op = "event"
    /\ lastOp.ev.type = "task_failed"
    /\ Len(LiveSegments) = 3
    /\ LiveSegments[1].type = "text"
    /\ LiveSegments[2].type = "tool"
    /\ LiveSegments[3].type = "text"
    /\ Last(messages).content = LiveSegments[1].content \o LiveSegments[3].content
    /\ EndsWith(Last(messages).content, FailNotice("boom"))

\* ------------------------------------------------------------------------
\* Progress of a tool call
\* ------------------------------------------------------------------------
IsProgressOfPending ==
    /\ lastOp'.op = "event"
    /\ lastOp'.ev.type = "tool_call_progress"
    /\ HasLiveLast
    /\ lastOp'.ev.call_id \in DOMAIN Last(messages).pending

\* the call a progress event leaves behind
Progressed(tool, ev) ==
    IF ev.progress_type \in {"log", "output"} /\ ev.message # ""
    THEN [tool EXCEPT !.logs = Append(@, ev.message)]
    ELSE IF ev.progress_type = "progress"
    THEN [tool EXCEPT !.progress = ev.progress, !.total = ev.total]
    ELSE tool

\* C38: a tool_call_progress event for a pending call id changes only that
\* call: the running segment with that id and the entry of pendingToolCalls
\* both hold the call with the message appended to its logs or with the
\* event's progress and total, still running and without output; every other
\* segment, every other entry, the content and the status stay as they were.
C38_ProgressUpdatesOnlyItsCall ==
    [][IsProgressOfPending
          => LET ev == lastOp'.ev
                 old == Last(messages)
                 new == Last(messages')
                 call == Progressed(old.pending[ev.call_id], ev)
             IN  /\ call.status = "running" /\ call.output = Undefined
                 /\ new.pending = MapSet(old.pending, ev.call_id, call)
                 /\ Len(new.segments) = Len(old.segments)
                 /\ \A k \in 1..Len(old.segments) :
                        IF /\ old.segments[k].type = "tool"
                           /\ old.segments[k].tool.id = ev.call_id
                           /\ old.segments[k].tool.status = "running"
                        THEN new.segments[k] = [old.segments[k] EXCEPT !.tool = call]
                        ELSE new.segments[k] = old.segments[k]
                 /\ new.content = old.content
                 /\ new.status = old.status]_vars

\* ------------------------------------------------------------------------
\* Order of the parsed segments
\* ------------------------------------------------------------------------
\* position of the first close tag after the open tag at 1, else 0
FirstClose(text, close) ==
    LET ends == {q \in 2..Len(text) : text[q] = close}
    IN  IF ends = {} THEN 0 ELSE MinOf(ends)

SpanOutline(span) ==
    IF Len(span) = 0 \/ IsBlank(span) THEN << >>
    ELSE <<[type |-> "text", content |-> span]>>

ToolOutline(name) == <<[type |-> "tool", name |-> name, status |-> "done"]>>

\* what a text yields from left to right: span is the text since the last
\* match, calls the names of the earlier call blocks still without a result
RECURSIVE Outline(_, _, _)
Outline(text, span, calls) ==
    IF Len(text) = 0 THEN SpanOutline(span)
    ELSE IF text[1] = CallOpen /\ FirstClose(text, CallClose) # 0
    THEN LET q == FirstClose(text, CallClose)
             name == CallName(SubSeq(text, 2, q - 1))
         IN  SpanOutline(span) \o ToolOutline(name)
                 \o Outline(SubSeq(text, q + 1, Len(text)), << >>, Append(calls, name))
    ELSE IF IsResultOpen(text[1]) /\ FirstClose(text, ResultClose) # 0
    THEN LET q == FirstClose(text, ResultClose)
             name == ResultName(text[1])
             open == {k \in 1..Len(calls) : calls[k] = name}
             rest == SubSeq(text, q + 1, Len(text))
         IN  IF open = {}
             THEN SpanOutline(span) \o ToolOutline(name) \o Outline(rest, << >>, calls)
             ELSE SpanOutline(span)
                      \o Outline(rest, << >>,
                                 SubSeq(calls, 1, MinOf(open) - 1)
                                     \o SubSeq(calls, MinOf(open) + 1, Len(calls)))
    ELSE Outline(Tail(text), Append(span, text[1]), calls)

OutlineOf(segments) ==
    [k \in 1..Len(segments) |->
        IF segments[k].type = "text"
        THEN [type |-> "text", content |-> segments[k].content]
        ELSE [type |-> "tool", name |-> segments[k].tool.name,
              status |-> segments[k].tool.status]]

\* C39: the segments of a parsed text are, in the order of the text, one tool
\* segment with status done per call block, one per result block that finds
\* no earlier call of its name without a result, and one text segment per
\* span between matches that is not whitespace only, holding the span as it
\* is; a text that yields none of these is kept whole as one text segment.
C39_SegmentsInTextOrder ==
    ParseDone
        => OutlineOf(ParsedSegments) =
               (IF Outline(ParsedText, << >>, << >>) = << >>
                THEN <<[type |-> "text", content |-> ParsedText]>>
                ELSE Outline(ParsedText, << >>, << >>))

\* C39 witness: text, a call, its result and text again give a text segment,
\* a tool segment and a text segment
C39_Witness ==
    /\ ParseDone
    /\ ParsedText = <<"x", CallOpen, JsonA, CallClose, ResultOpenA, "o1", ResultClose, "x">>
    /\ Len(ParsedSegments) = 3
    /\ ParsedSegments[2].type = "tool"
    /\ ParsedSegments[3] = TextSeg(<<"x">>)

\* ------------------------------------------------------------------------
\* The catch block of sendMessage
\* ------------------------------------------------------------------------
\* C40: when executeStream rejects with an error that is not an abort, the
\* sending flag becomes false and the last turn, if it is an assistant turn,
\* gets status error and the failure message as content while its segments,
\* its pending calls and all other turns stay as they were; when it rejects
\* with an abort, no turn changes.
C40_TransportFailureMarksLastTurn ==
    [][/\ lastOp'.op = "streamFail"
          => /\ ~sending'
             /\ Len(messages') = Len(messages)
             /\ \A i \in 1..(Len(messages) - 1) : messages'[i] = messages[i]
             /\ IF HasLiveLast
                THEN Last(messages') = [Last(messages) EXCEPT !.status = "error",
                                                              !.content = SendFailed]
                ELSE messages' = messages
       /\ lastOp'.op = "streamAborted" => messages' = messages]_vars

\* C40 witness: the stream failed after it had delivered a segment; the turn
\* has status error, the failure message as content, and the segment
C40_Witness ==
    /\ lastOp.op = "streamFail"
    /\ HasLiveLast
    /\ Last(messages).status = "error"
    /\ Last(messages).content = SendFailed
    /\ Len(LiveSegments) > 0
    /\ ~sending

====
